---- MODULE Spec2Model ----
(***************************************************************************)
(* Model of api.py: a Flask relay with two routes.  POST /api/chat takes   *)
(* a JSON body, extracts `message`, issues one call to the hosted          *)
(* completion API through the process-wide client and maps the result or   *)
(* failure to a JSON response.  GET /api/health returns a fixed body.      *)
(*                                                                         *)
(* Python values are records [type, val, items]: `type` is the Python type *)
(* name, `val` the text of a scalar, `items` the <<key, value>> pairs of a *)
(* dict (or <<index, value>> pairs of a list).                             *)
(***************************************************************************)
EXTENDS Naturals, Sequences, FiniteSets

\* Number of chat requests the server handles concurrently.
NumRequests == 2

Requests == 1..NumRequests

VARIABLES
    client,     \* the process-wide upstream client handle (api.py:10)
    pc,         \* pc[i]: where chat request i is: idle, recv, calling, done, uncaught
    body,       \* body[i]: the inbound HTTP body of chat request i
    outbound,   \* outbound[i]: the arguments of the upstream call issued for i
    upstream,   \* upstream[i]: what the upstream call of i returned or raised
    exc,        \* exc[i]: the exception raised inside the try block of i
    resp,       \* resp[i]: the (body, status) the handler returned for i
    events,     \* events[i]: the outbound calls and returns of i, in order
    hresp       \* the response of the health request being served, if any

vars == <<client, pc, body, outbound, upstream, exc, resp, events, hresp>>

----------------------------------------------------------------------------
\* Python / JSON values

Str(s) == [type |-> "str", val |-> s, items |-> {}]

Int(s) == [type |-> "int", val |-> s, items |-> {}]

Bool(s) == [type |-> "bool", val |-> s, items |-> {}]

None == [type |-> "NoneType", val |-> "None", items |-> {}]

List(its) == [type |-> "list", val |-> "", items |-> its]

Dict(its) == [type |-> "dict", val |-> "", items |-> its]

True == Bool("True")

False == Bool("False")

\* Python truthiness, bool(v): empty strings and containers, zero, False and
\* None are falsy.
PyBool(v) ==
    CASE v.type = "str" -> v.val # ""
      [] v.type = "int" -> v.val # "0"
      [] v.type = "bool" -> v.val = "True"
      [] v.type = "NoneType" -> FALSE
      [] OTHER -> v.items # {}

\* A faulty emptiness test: only None counts as missing.
PyNotNoneOnly(v) == v.type = "NoneType"

\* `not user_message` (api.py:18)
PyNot(v) == ~PyBool(v)

Keys(d) == {p[1] : p \in d.items}

\* dict.get(k, default) (api.py:16)
DictGet(d, k, default) ==
    IF k \in Keys(d) THEN (CHOOSE p \in d.items : p[1] = k)[2] ELSE default

\* Exceptions: the class and what str(e) gives.
Exc(cls, s) == [cls |-> cls, str |-> s]

NoExc == Exc("", "")

\* str(e) (api.py:41)
PyStr(e) == e.str

\* The classes `except Exception` catches: every exception a request can raise
\* derives from Exception (KeyboardInterrupt and SystemExit do not).
ExceptionClasses ==
    {"Exception", "BadRequest", "UnsupportedMediaType", "AttributeError",
     "IndexError", "APIConnectionError", "AuthenticationError"}

\* A handler that catches only the upstream's errors.
CatchesUpstreamOnly(e) == e.cls \in {"APIConnectionError", "AuthenticationError"}

\* `except Exception as e` (api.py:39)
Catches(e) == e.cls \in ExceptionClasses

----------------------------------------------------------------------------
\* Inbound requests

\* Values a caller may put under `message`.
MessageValues ==
    {Str(""), Str(" Hello "),
     Int("0"), Int("42"), False, True, None,
     List({}), List({<<"0", Int("1")>>}),
     Dict({}), Dict({<<"a", Int("1")>>})}

\* JSON documents a caller may send.
JsonDocs ==
    {Dict({<<"message", m>>}) : m \in MessageValues}
    \cup {Dict({}), Dict({<<"user", Str("bob")>>}),
          None, List({<<"0", Str(" Hello ")>>})}

\* An inbound body: undecodable text, a body without the JSON content type, or
\* a JSON document.
Bodies ==
    {[kind |-> "malformed", json |-> None], [kind |-> "not_json", json |-> None]}
    \cup {[kind |-> "json", json |-> d] : d \in JsonDocs}

\* request.get_json() (api.py:15): raises BadRequest on undecodable JSON and
\* UnsupportedMediaType when the content type is not JSON, else returns the
\* parsed document.  (Flask before 2.1 returns None for the second case, which
\* is what the JSON document `null` gives here.)
get_json(b) ==
    CASE b.kind = "malformed" ->
            [raised |-> TRUE, value |-> None,
             exc |-> Exc("BadRequest", "400 Bad Request: Failed to decode JSON object")]
      [] b.kind = "not_json" ->
            [raised |-> TRUE, value |-> None,
             exc |-> Exc("UnsupportedMediaType", "415 Unsupported Media Type")]
      [] OTHER -> [raised |-> FALSE, value |-> b.json, exc |-> NoExc]

\* data.get (api.py:16) on a value that is no dict
NoGetAttr(d) ==
    Exc("AttributeError",
        CASE d.type = "NoneType" -> "'NoneType' object has no attribute 'get'"
          [] d.type = "list" -> "'list' object has no attribute 'get'"
          [] d.type = "str" -> "'str' object has no attribute 'get'"
          [] OTHER -> "object has no attribute 'get'")

----------------------------------------------------------------------------
\* The upstream completion API

ValidKey == "gsk_valid"

\* os.environ.get("GROQ_API_KEY") (api.py:10): a working key, a revoked one, or
\* None when the variable is not set.
Credentials == {ValidKey, "gsk_revoked", "None"}

\* Groq(api_key=...) (api.py:10)
Groq(key) == [api_key |-> key]

Model == "llama-3.3-70b-versatile"

NoCall == [model |-> "", messages |-> << >>]

\* The arguments of client.chat.completions.create (api.py:22-30)
CreateArgs(user_message) ==
    [model |-> Model,
     messages |-> <<[role |-> "user", content |-> user_message]>>]

\* Completions the upstream may return: the contents of its choices, in order.
Completions ==
    {<<Str("Hi"), Str("Bye")>>, <<None>>, << >>}

Outcome(kind, choices, e) == [kind |-> kind, choices |-> choices, exc |-> e]

NoOutcome == Outcome("none", << >>, NoExc)

\* What client.chat.completions.create (api.py:22) can do when it comes back:
\* return a completion, or raise.  With a credential the upstream rejects,
\* every call raises the upstream's rejection.
UpstreamOutcomes(c) ==
    IF c.api_key = ValidKey
    THEN {Outcome("return", ch, NoExc) : ch \in Completions}
         \cup {Outcome("raise", << >>, Exc("APIConnectionError", "Connection error.")),
               Outcome("raise", << >>, Exc("Exception", ""))}
    ELSE {Outcome("raise", << >>,
                  Exc("AuthenticationError", "Error code: 401 - Invalid API Key"))}

\* A faulty choice: the last completion choice.
LastChoice(choices) == choices[Len(choices)]

\* chat_completion.choices[0].message.content (api.py:32)
FirstChoice(choices) == choices[1]

----------------------------------------------------------------------------
\* Responses

Response(status, b) == [status |-> status, body |-> b]

NoResp == Response(0, None)

\* jsonify({'error': 'Message is required'}), 400 (api.py:19)
RequiredResponse == Response(400, Dict({<<"error", Str("Message is required")>>}))

\* jsonify({'response': response, 'success': True}) (api.py:34-37)
SuccessResponse(content) ==
    Response(200, Dict({<<"response", content>>, <<"success", True>>}))

\* A faulty error mapping: the failure's text is replaced by a fixed one.
ErrorResponseGeneric(e) ==
    Response(500, Dict({<<"error", Str("Internal Server Error")>>, <<"success", False>>}))

\* jsonify({'error': str(e), 'success': False}), 500 (api.py:40-43)
ErrorResponse(e) ==
    Response(500, Dict({<<"error", Str(PyStr(e))>>, <<"success", False>>}))

\* A health check that probes the upstream credential.
HealthProbing ==
    IF client.api_key = ValidKey
    THEN Response(200, Dict({<<"status", Str("healthy")>>}))
    ELSE Response(503, Dict({<<"status", Str("unhealthy")>>}))

\* jsonify({'status': 'healthy'}) (api.py:47)
HealthResponse == Response(200, Dict({<<"status", Str("healthy")>>}))

----------------------------------------------------------------------------
\* State

Init ==
    /\ client \in {Groq(k) : k \in Credentials}
    /\ pc = [i \in Requests |-> "idle"]
    /\ body = [i \in Requests |-> [kind |-> "none", json |-> None]]
    /\ outbound = [i \in Requests |-> NoCall]
    /\ upstream = [i \in Requests |-> NoOutcome]
    /\ exc = [i \in Requests |-> NoExc]
    /\ resp = [i \in Requests |-> NoResp]
    /\ events = [i \in Requests |-> << >>]
    /\ hresp = NoResp

\* A POST /api/chat arrives (api.py:12); requests are numbered in the order
\* of their arrival.
Arrive(i, b) ==
    /\ pc[i] = "idle"
    /\ \A j \in 1..(i - 1) : pc[j] # "idle"
    /\ pc' = [pc EXCEPT ![i] = "recv"]
    /\ body' = [body EXCEPT ![i] = b]
    /\ UNCHANGED <<client, outbound, upstream, exc, resp, events, hresp>>

\* The except clause (api.py:39-43): an Exception becomes the 500 response,
\* anything else leaves the handler.
Except(i, e) ==
    /\ exc' = [exc EXCEPT ![i] = e]
    /\ IF Catches(e)
       THEN /\ resp' = [resp EXCEPT ![i] = ErrorResponse(e)]
            /\ pc' = [pc EXCEPT ![i] = "done"]
            /\ events' = [events EXCEPT ![i] = Append(@, "respond")]
       ELSE /\ pc' = [pc EXCEPT ![i] = "uncaught"]
            /\ UNCHANGED <<resp, events>>

\* chat(), from its entry to the upstream call (api.py:14-30): parse the body,
\* extract `message`, reject a falsy one, else issue the call and block in it.
chat_handle(i) ==
    /\ pc[i] = "recv"
    /\ LET parsed == get_json(body[i])
           data == parsed.value
       IN IF parsed.raised
          THEN Except(i, parsed.exc) /\ UNCHANGED outbound
          ELSE IF data.type # "dict"
          THEN Except(i, NoGetAttr(data)) /\ UNCHANGED outbound
          ELSE LET user_message == DictGet(data, "message", Str(""))
               IN IF PyNot(user_message)
                  THEN /\ resp' = [resp EXCEPT ![i] = RequiredResponse]
                       /\ pc' = [pc EXCEPT ![i] = "done"]
                       /\ events' = [events EXCEPT ![i] = Append(@, "respond")]
                       /\ UNCHANGED <<outbound, exc>>
                  ELSE /\ outbound' = [outbound EXCEPT ![i] = CreateArgs(user_message)]
                       /\ pc' = [pc EXCEPT ![i] = "calling"]
                       /\ events' = [events EXCEPT ![i] = Append(@, "call")]
                       /\ UNCHANGED <<resp, exc>>
    /\ UNCHANGED <<client, body, upstream, hresp>>

\* A faulty continuation: a failed upstream call is issued again.
chat_complete_retry(i) ==
    /\ pc[i] = "calling"
    /\ \E o \in UpstreamOutcomes(client) :
          /\ upstream' = [upstream EXCEPT ![i] = o]
          /\ IF o.kind = "raise" /\ Len(events[i]) < 3
             THEN /\ events' = [events EXCEPT ![i] = Append(@, "call")]
                  /\ UNCHANGED <<pc, exc, resp>>
             ELSE IF o.kind = "raise" \/ Len(o.choices) = 0
             THEN Except(i, IF o.kind = "raise" THEN o.exc
                            ELSE Exc("IndexError", "list index out of range"))
             ELSE /\ resp' = [resp EXCEPT ![i] = SuccessResponse(FirstChoice(o.choices))]
                  /\ pc' = [pc EXCEPT ![i] = "done"]
                  /\ events' = [events EXCEPT ![i] = Append(@, "respond")]
                  /\ UNCHANGED exc
    /\ UNCHANGED <<client, body, outbound, hresp>>

\* A faulty continuation: the result is read back from a module-level slot
\* that the latest request to finish has written.
chat_complete_shared(i) ==
    /\ pc[i] = "calling"
    /\ \E o \in UpstreamOutcomes(client) :
          /\ upstream' = [upstream EXCEPT ![i] = o]
          /\ LET others == {j \in Requests : j # i /\ upstream[j].kind # "none"}
                 seen == IF others = {} THEN o
                         ELSE upstream[CHOOSE j \in others : TRUE]
             IN IF seen.kind = "raise"
                THEN Except(i, seen.exc)
                ELSE IF Len(seen.choices) = 0
                THEN Except(i, Exc("IndexError", "list index out of range"))
                ELSE /\ resp' = [resp EXCEPT ![i] = SuccessResponse(FirstChoice(seen.choices))]
                     /\ pc' = [pc EXCEPT ![i] = "done"]
                     /\ events' = [events EXCEPT ![i] = Append(@, "respond")]
                     /\ UNCHANGED exc
    /\ UNCHANGED <<client, body, outbound, hresp>>

\* chat(), from the return of the upstream call to the response
\* (api.py:22-43): the call returns or raises; the first choice's content
\* becomes the 200 response, a failure goes to the except clause.
chat_complete(i) ==
    /\ pc[i] = "calling"
    /\ \E o \in UpstreamOutcomes(client) :
          /\ upstream' = [upstream EXCEPT ![i] = o]
          /\ IF o.kind = "raise"
             THEN Except(i, o.exc)
             ELSE IF Len(o.choices) = 0
             THEN Except(i, Exc("IndexError", "list index out of range"))
             ELSE /\ resp' = [resp EXCEPT ![i] = SuccessResponse(FirstChoice(o.choices))]
                  /\ pc' = [pc EXCEPT ![i] = "done"]
                  /\ events' = [events EXCEPT ![i] = Append(@, "respond")]
                  /\ UNCHANGED exc
    /\ UNCHANGED <<client, body, outbound, hresp>>

\* health_check() (api.py:45-47)
health_check ==
    /\ hresp = NoResp
    /\ hresp' = HealthResponse
    /\ UNCHANGED <<client, pc, body, outbound, upstream, exc, resp, events>>

\* The health response has been sent; the next GET /api/health can be served.
HealthSent ==
    /\ hresp # NoResp
    /\ hresp' = NoResp
    /\ UNCHANGED <<client, pc, body, outbound, upstream, exc, resp, events>>

Next ==
    \/ \E i \in Requests, b \in Bodies : Arrive(i, b)
    \/ \E i \in Requests : chat_handle(i)
    \/ \E i \in Requests : chat_complete(i)
    \/ health_check
    \/ HealthSent

Spec == Init /\ [][Next]_vars

\* The server runs every handler it has started; whether and when the
\* upstream answers is not up to the server.
SpecLive == Spec /\ \A i \in Requests : WF_vars(chat_handle(i))

----------------------------------------------------------------------------
\* Vocabulary of the properties

\* The handler of request i has returned a response.
Responded(i) == resp[i] # NoResp

\* The body of request i deserializes to an object.
IsObject(b) == b.kind = "json" /\ b.json.type = "dict"

\* The body is an object whose `message` is m.
MessageIs(b, m) == IsObject(b) /\ <<"message", m>> \in b.json.items

NonEmptyString(v) == v.type = "str" /\ v.val # ""

\* The body is an object whose `message` is a non-empty string.
ValidMessage(b) == \E m \in MessageValues : MessageIs(b, m) /\ NonEmptyString(m)

\* The body is an object without a `message` key, or with the empty string.
EmptyOrMissing(b) ==
    IsObject(b) /\ (MessageIs(b, Str("")) \/ \A p \in b.json.items : p[1] # "message")

FieldNames(r) == {p[1] : p \in r.body.items}

HasField(r, k, v) == <<k, v>> \in r.body.items

\* The success shape {response, success: true}.
SuccessShape(r) ==
    FieldNames(r) = {"response", "success"} /\ HasField(r, "success", Bool("True"))

\* The failure shape {error, success: false}.
FailureShape(r) ==
    FieldNames(r) = {"error", "success"} /\ HasField(r, "success", Bool("False"))

Required400 ==
    [status |-> 400,
     body |-> [type |-> "dict", val |-> "",
               items |-> {<<"error", Str("Message is required")>>}]]

----------------------------------------------------------------------------
\* C1: every chat request whose message is a non-empty string is answered
\* either 200 with a string `response` and success = true, or 500 with
\* success = false and a non-empty `error` string, whatever the upstream does.
C1_StringResponseOrNonEmptyError ==
    \A i \in Requests :
        (Responded(i) /\ ValidMessage(body[i])) =>
            \/ /\ resp[i].status = 200
               /\ SuccessShape(resp[i])
               /\ \E p \in resp[i].body.items : p[1] = "response" /\ p[2].type = "str"
            \/ /\ resp[i].status = 500
               /\ HasField(resp[i], "success", Bool("False"))
               /\ \E p \in resp[i].body.items :
                     p[1] = "error" /\ p[2].type = "str" /\ p[2].val # ""

----------------------------------------------------------------------------
\* C2 as stated: whenever `message` is the empty string or absent (the key
\* is missing, or the body carries no object at all), the response is exactly
\* 400 {"error": "Message is required"}.
C2_AbsentAlways400 ==
    \A i \in Requests :
        (pc[i] \notin {"idle", "recv"}
            /\ (EmptyOrMissing(body[i]) \/ ~IsObject(body[i])))
        => resp[i] = Required400

\* C2 as amended: a body that is an object with `message` empty or missing is
\* answered exactly 400 {"error": "Message is required"} and makes no call; a
\* body that carries no object is answered 500, not 400.
C2_ObjectWithoutMessage400 ==
    \A i \in Requests :
        pc[i] \notin {"idle", "recv"} =>
            /\ EmptyOrMissing(body[i]) => (resp[i] = Required400 /\ outbound[i] = NoCall)
            /\ ~IsObject(body[i]) => resp[i].status = 500

C2_Witness ==
    \E i \in Requests :
        /\ pc[i] = "done"
        /\ body[i] = [kind |-> "json", json |-> Dict({})]
        /\ resp[i].status = 400

----------------------------------------------------------------------------
\* C3: the upstream is called only for a non-empty string `message`; a request
\* whose message is missing, empty or not a string is rejected with no call.
C3_CallOnlyForNonEmptyString ==
    \A i \in Requests :
        /\ outbound[i] # NoCall => ValidMessage(body[i])
        /\ (pc[i] \notin {"idle", "recv"} /\ IsObject(body[i]) /\ ~ValidMessage(body[i]))
             => (resp[i].status = 400 /\ events[i] = <<"respond">>)

----------------------------------------------------------------------------
\* C4: every response of the chat operation has one of the two shapes,
\* {response, success: true} or {error, success: false}.
C4_OneOfTwoShapes ==
    \A i \in Requests :
        Responded(i) => (SuccessShape(resp[i]) \/ FailureShape(resp[i]))

----------------------------------------------------------------------------
\* C5 as stated: every chat request that arrives eventually receives a
\* response, also when the upstream never answers.
C5_AlwaysAnswered ==
    \A i \in Requests : (pc[i] = "recv") ~> Responded(i)

\* C5 as amended: every chat request that arrives is eventually either
\* answered or blocked in its upstream call; once the upstream call has come
\* back (returned or raised) the response exists, and no failure leaves the
\* handler uncaught.
C5_AnsweredOrBlockedUpstream ==
    /\ \A i \in Requests : (pc[i] = "recv") ~> (Responded(i) \/ pc[i] = "calling")
    /\ [](\A i \in Requests :
            /\ pc[i] # "uncaught"
            /\ upstream[i].kind # "none" => Responded(i)
            /\ (pc[i] = "done") = Responded(i))

C5_Witness ==
    \E i, j \in Requests :
        /\ pc[i] = "calling" /\ ~Responded(i)
        /\ upstream[j].kind = "raise" /\ Responded(j)

----------------------------------------------------------------------------
\* C6: a failure other than the validation failure (undecodable body, body
\* that is no object, upstream call raising, completion without a first
\* choice) yields 500 {error: <the failure's text>, success: false}, never 200
\* or 400, and never leaves the handler uncaught.
C6_OtherFailures500 ==
    \A i \in Requests :
        /\ pc[i] # "uncaught"
        /\ (pc[i] \notin {"idle", "recv"} /\ ~IsObject(body[i])) =>
              /\ resp[i].status = 500
              /\ FailureShape(resp[i])
              /\ exc[i] # NoExc
              /\ HasField(resp[i], "error", Str(exc[i].str))
        /\ upstream[i].kind = "raise" =>
              /\ resp[i].status = 500
              /\ FailureShape(resp[i])
              /\ HasField(resp[i], "error", Str(upstream[i].exc.str))
        /\ (upstream[i].kind = "return" /\ upstream[i].choices = << >>) =>
              /\ resp[i].status = 500
              /\ FailureShape(resp[i])
              /\ HasField(resp[i], "error", Str("list index out of range"))

C6_Witness ==
    \E i, j \in Requests :
        /\ body[i].kind = "malformed" /\ resp[i].status = 500
        /\ upstream[j].kind = "return" /\ upstream[j].choices = << >>
        /\ resp[j].status = 500

----------------------------------------------------------------------------
\* C7: GET /api/health can be served in every state and its response is
\* always 200 {"status": "healthy"}, with chat requests in flight or failed
\* and with any credential; serving it makes no outbound call.
C7_HealthAlwaysHealthy ==
    /\ [](/\ hresp = NoResp => ENABLED health_check
          /\ hresp # NoResp =>
               hresp = [status |-> 200,
                        body |-> [type |-> "dict", val |-> "",
                                  items |-> {<<"status", Str("healthy")>>}]])
    /\ [][hresp' # hresp => (outbound' = outbound /\ events' = events /\ pc' = pc)]_vars

C7_Witness ==
    /\ hresp # NoResp
    /\ client.api_key # ValidKey
    /\ \E i, j \in Requests :
          pc[i] = "calling" /\ pc[j] = "done" /\ resp[j].status = 500

----------------------------------------------------------------------------
\* C8: a chat request makes exactly one upstream call when its message is
\* valid and none when it is rejected, never more than one; the call comes
\* before the response, and nothing happens for a request after its response.
C8_AtMostOneCallThenResponse ==
    /\ [](\A i \in Requests :
            /\ events[i] \in {<< >>, <<"call">>, <<"call", "respond">>, <<"respond">>}
            /\ (Responded(i) /\ ValidMessage(body[i])) => events[i] = <<"call", "respond">>
            /\ (pc[i] = "calling") => events[i] = <<"call">>
            /\ resp[i].status = 400 => events[i] = <<"respond">>)
    /\ [][\A i \in Requests :
            Responded(i) =>
                /\ pc'[i] = pc[i] /\ resp'[i] = resp[i] /\ events'[i] = events[i]
                /\ outbound'[i] = outbound[i] /\ upstream'[i] = upstream[i]]_vars

C8_Witness ==
    \E i, j \in Requests :
        /\ upstream[i].kind = "raise" /\ events[i] = <<"call", "respond">>
        /\ resp[j].status = 400 /\ events[j] = <<"respond">>

----------------------------------------------------------------------------
\* C9: for a valid message m the upstream call carries the fixed model and
\* exactly one message, role "user" with content m unchanged; when the
\* upstream returns choices, `response` is the first choice's content
\* unchanged, never a later choice's.
C9_VerbatimRelay ==
    \A i \in Requests :
        /\ (pc[i] \in {"calling", "done"} /\ ValidMessage(body[i])) => outbound[i] # NoCall
        /\ outbound[i] # NoCall =>
              \E m \in MessageValues :
                  /\ MessageIs(body[i], m)
                  /\ outbound[i] =
                        [model |-> "llama-3.3-70b-versatile",
                         messages |-> <<[role |-> "user", content |-> m]>>]
        /\ (upstream[i].kind = "return" /\ Len(upstream[i].choices) >= 1) =>
              /\ resp[i].status = 200
              /\ HasField(resp[i], "response", upstream[i].choices[1])
              /\ \A k \in 2..Len(upstream[i].choices) :
                    upstream[i].choices[k] # upstream[i].choices[1]
                        => ~HasField(resp[i], "response", upstream[i].choices[k])

C9_Witness ==
    \E i \in Requests :
        /\ MessageIs(body[i], Str(" Hello "))
        /\ upstream[i].choices = <<Str("Hi"), Str("Bye")>>
        /\ HasField(resp[i], "response", Str("Hi"))

----------------------------------------------------------------------------
\* C10: under any interleaving, the response to a chat request depends only
\* on its own body and the outcome of its own upstream call: equal inputs
\* give equal responses, a 200 carries a choice of the request's own
\* completion, a 500 after an upstream failure carries that failure's text;
\* and no step changes the client handle.
C10_Isolation ==
    /\ [](\A i \in Requests :
            /\ \A j \in Requests :
                  (Responded(i) /\ Responded(j)
                      /\ body[i] = body[j] /\ upstream[i] = upstream[j])
                  => resp[i] = resp[j]
            /\ resp[i].status = 200 =>
                  /\ upstream[i].kind = "return"
                  /\ \E k \in 1..Len(upstream[i].choices) :
                        HasField(resp[i], "response", upstream[i].choices[k])
            /\ (Responded(i) /\ upstream[i].kind = "raise") =>
                  HasField(resp[i], "error", Str(upstream[i].exc.str))
            /\ (Responded(i) /\ upstream[i].kind = "none") =>
                  (outbound[i] = NoCall /\ resp[i].status \in {400, 500}))
    /\ [][client' = client]_vars

C10_Witness ==
    \E i, j \in Requests :
        /\ Responded(i) /\ Responded(j)
        /\ upstream[i].kind = "return" /\ upstream[j].kind = "raise"
        /\ resp[i].status = 200 /\ resp[j].status = 500

====
